---- MODULE Spec2Model ----
(***************************************************************************)
(* Model of src/collector.py: the GitHub metadata collector.               *)
(*                                                                         *)
(*   Spec      main(): configuration, search, thread pool, as_completed    *)
(*             collection loop and the final save_metadata_to_json.        *)
(*   FairSpec  Spec with weak fairness on every step of main and of the    *)
(*             workers (every call returns, the pool schedules).           *)
(*   ProcSpec  one call of process_repo on every combination of the        *)
(*             responses of the sub-resource requests.                     *)
(*   ContribSpec  one call of get_repo_contributors, one page request per  *)
(*             step, on every sequence of responses of the provider.       *)
(*   FmtSpec   one call of format_languages on every language mapping of   *)
(*             the model.                                                  *)
(*   SearchSpec  one call of search_repositories_filtered on every         *)
(*             provider of the model, also one that ignores per_page.      *)
(*                                                                         *)
(* Python values are tagged records so that None, numbers, strings, lists  *)
(* and dicts can live in the same field and truthiness is computed as      *)
(* Python computes it.                                                     *)
(***************************************************************************)
EXTENDS Integers, Sequences, FiniteSets, TLC

(***************************************************************************)
(* Bounds of the model.                                                    *)
(***************************************************************************)
MaxRepos == 3
MaxCpu == 2

(***************************************************************************)
(* Program constants.                                                      *)
(***************************************************************************)
DefaultMinContributors == 1
ContributorsPerPage == 100
max_pages == 10
estimation_threshold == 400
DefaultNumberOfRepositories == 20
SearchPerPage == 100

(***************************************************************************)
(* Python values.                                                          *)
(***************************************************************************)
None == [t |-> "None"]
Absent == [t |-> "absent"]
PyInt(n) == [t |-> "int", i |-> n]
PyStr(s) == [t |-> "str", s |-> s]
PyList(l) == [t |-> "list", l |-> l]
PyDict(d) == [t |-> "dict", d |-> d]

\* bool(v): None, 0, "", [] and {} are false, everything else is true.
Truthy(v) ==
    CASE v.t = "None" -> FALSE
      [] v.t = "int"  -> v.i # 0
      [] v.t = "str"  -> v.s # ""
      [] v.t = "list" -> Len(v.l) # 0
      [] v.t = "dict" -> DOMAIN v.d # {}
      [] OTHER        -> TRUE

\* dict.get(key, default) on a dict value.
DictGet(c, key, default) == IF key \in DOMAIN c.d THEN c.d[key] ELSE default

\* The outcome of a call: a returned value or a raised exception.
Returned(v) == [raised |-> FALSE, value |-> v]
Raised(e) == [raised |-> TRUE, exc |-> e]

(***************************************************************************)
(* Placeholder strings of process_repo.                                    *)
(***************************************************************************)
DescriptionPlaceholder == PyStr("Descrição não disponível")
LinkPlaceholder == PyStr("Link não disponível")
LanguagesPlaceholder == PyStr("Linguagens não disponíveis")
ReadmePlaceholder == PyStr("README não disponível")
LabelsPlaceholder == PyStr("Labels não disponíveis")

(***************************************************************************)
(* Outcomes of a request.  A response has a status code and, when the      *)
(* status is 200, a body.  A body that is not JSON is a response with the  *)
(* field malformed instead of a body.  A request that gets no response     *)
(* (timeout, connection error) is the exception requests.get raises.       *)
(***************************************************************************)
RequestExceptions == {"ConnectionError", "Timeout"}

NoResponse(e) == [exception |-> e]
MalformedBody(status) == [status |-> status, malformed |-> TRUE]

RequestRaises(resp) == "exception" \in DOMAIN resp
BodyMalformed(resp) == "malformed" \in DOMAIN resp

\* response.json()
ResponseJson(resp) ==
    IF BodyMalformed(resp) THEN Raised("JSONDecodeError") ELSE Returned(resp)

RepoIds == {"widget", "gadget"}

MetaResponses ==
    {[status |-> 404]} \cup
    {[status |-> 200, description |-> d, html_url |-> u] :
        d \in {None, PyStr(""), PyStr("a widget")},
        u \in {None, PyStr("https://github.com/acme/widget")}}

OrgResponses ==
    {[status |-> 404],
     [status |-> 200, organization |-> None],
     [status |-> 200, organization |-> PyStr("acme")]}

TopicsResponses ==
    {[status |-> 404],
     [status |-> 200, names |-> <<>>],
     [status |-> 200, names |-> <<"cli">>]}

\* The repository's HTML page: the contributors anchor, its counter span
\* and the span's title attribute, a sequence of code points: the titles
\* "0", "2", "3", "1,000", "x", the empty title, the title of a space, the
\* Arabic-Indic digit three and a no-break space, and "-3".
HtmlTitles ==
    {<<48>>, <<50>>, <<51>>, <<49, 44, 48, 48, 48>>, <<120>>, <<>>,
     <<32, 1635, 160>>, <<45, 51>>}

\* A title of 4301 zeros, one digit more than int() converts.
LongTitle == [k \in 1..4301 |-> 48]

HtmlResponses ==
    {[status |-> 404],
     [status |-> 200, anchor |-> FALSE],
     [status |-> 200, anchor |-> TRUE, span |-> FALSE]} \cup
    {[status |-> 200, anchor |-> TRUE, span |-> TRUE, title |-> ti] :
        ti \in HtmlTitles}

ReadmeResponses ==
    {[status |-> 404],
     [status |-> 200, text |-> ""],
     [status |-> 200, text |-> "# widget"]}

LabelsResponses ==
    {[status |-> 404],
     [status |-> 200, labels |-> <<>>],
     [status |-> 200, labels |-> <<"bug", "feature">>]}

\* A language mapping is a dict in insertion order: a sequence of
\* <<language, bytes>> pairs.
LanguagesResponses ==
    {[status |-> 404],
     [status |-> 200, body |-> <<>>],
     [status |-> 200, body |-> <<<<"C", 100>>, <<"Python", 300>>>>],
     [status |-> 200, body |-> <<<<"Python", 0>>>>]}

\* The answers of a provider to the seven requests of one repository.
AnsweredResponses ==
    [meta : MetaResponses, org : OrgResponses, topics : TopicsResponses,
     html : HtmlResponses, readme : ReadmeResponses,
     labels : LabelsResponses, languages : LanguagesResponses]

FullResponses(title) ==
    [meta |-> [status |-> 200, description |-> PyStr("a widget"),
               html_url |-> PyStr("https://github.com/acme/widget")],
     org |-> [status |-> 200, organization |-> PyStr("acme")],
     topics |-> [status |-> 200, names |-> <<"cli">>],
     html |-> [status |-> 200, anchor |-> TRUE, span |-> TRUE, title |-> title],
     readme |-> [status |-> 200, text |-> "# widget"],
     labels |-> [status |-> 200, labels |-> <<"bug", "feature">>],
     languages |-> [status |-> 200, body |-> <<<<"C", 100>>, <<"Python", 300>>>>]]

\* The ways a request can fail without a response that can be read: no
\* response at all, or, where the fetcher parses the body, a body that is
\* not JSON (get_repo_metadata parses the body of an error response too).
RequestKinds == {"meta", "org", "topics", "html", "readme", "labels", "languages"}

BrokenOutcomes(kind) ==
    {NoResponse(e) : e \in RequestExceptions} \cup
    (IF kind \in {"meta", "org", "topics", "labels", "languages"}
     THEN {MalformedBody(200)} ELSE {}) \cup
    (IF kind = "meta" THEN {MalformedBody(404)} ELSE {})

\* One request of the repository breaks; the others are answered in full,
\* or in full but for a README that is not found.
BrokenBases ==
    {FullResponses(<<51>>),
     [FullResponses(<<51>>) EXCEPT !.readme = [status |-> 404]]}

BrokenResponses ==
    UNION {{[base EXCEPT ![kind] = broken] :
              base \in BrokenBases, broken \in BrokenOutcomes(kind)} :
           kind \in RequestKinds}

\* A page whose counter has the long title, the other requests answered
\* in full.
LongTitleResponses == {FullResponses(LongTitle)}

AllResponses == AnsweredResponses \cup BrokenResponses \cup LongTitleResponses

(***************************************************************************)
(* GithubAPI: the fetchers.                                                *)
(***************************************************************************)
\* Every fetcher returns a value or lets the exception of requests.get or
\* of response.json() through: none of them has a try around the request.
get_repo_readme(resp) ==
    IF RequestRaises(resp) THEN Raised(resp.exception)
    ELSE IF resp.status = 200 THEN Returned(PyStr(resp.text))
    ELSE Returned(None)

get_repo_languages(resp) ==
    IF RequestRaises(resp) THEN Raised(resp.exception)
    ELSE IF resp.status = 200
         THEN LET data == ResponseJson(resp)
              IN IF data.raised THEN data ELSE Returned(PyDict(data.value.body))
         ELSE Returned(None)

get_repo_organization(resp) ==
    IF RequestRaises(resp) THEN Raised(resp.exception)
    ELSE IF resp.status = 200
         THEN LET data == ResponseJson(resp)
              IN IF data.raised THEN data
                 ELSE IF Truthy(data.value.organization)
                      THEN Returned(data.value.organization)
                      ELSE Returned(None)
         ELSE Returned(None)

get_repo_keywords(resp) ==
    IF RequestRaises(resp) THEN Raised(resp.exception)
    ELSE IF resp.status = 200
         THEN LET data == ResponseJson(resp)
              IN IF data.raised THEN data ELSE Returned(PyList(data.value.names))
         ELSE Returned(None)

get_repo_labels_count(resp) ==
    IF RequestRaises(resp) THEN Raised(resp.exception)
    ELSE IF resp.status = 200
         THEN LET data == ResponseJson(resp)
              IN IF data.raised THEN data
                 ELSE Returned(PyInt(Len(data.value.labels)))
         ELSE Returned(None)

\* A text is the sequence of the code points of its characters.
\* int(text.replace(',', '')): int() turns every Unicode blank into a space
\* and every Unicode decimal digit into its ASCII digit, strips the blanks
\* around the text, takes one optional sign, and then wants digits, with
\* single underscores allowed between two digits; anything else is a
\* ValueError.
Comma == 44
PlusSign == 43
MinusSign == 45
Underscore == 95

\* The digit zero of every decimal digit system of Unicode 14 (category Nd);
\* the digits 1 to 9 of a system follow its zero.
DigitZeros ==
    {
     48, 1632, 1776, 1984, 2406, 2534, 2662, 2790, 2918, 3046, 3174, 3302,
     3430, 3558, 3664, 3792, 3872, 4160, 4240, 6112, 6160, 6470, 6608,
     6784, 6800, 6992, 7088, 7232, 7248, 42528, 43216, 43264, 43472, 43504,
     43600, 44016, 65296, 66720, 68912, 69734, 69872, 69942, 70096, 70384,
     70736, 70864, 71248, 71360, 71472, 71904, 72016, 72784, 73040, 73120,
     92768, 92864, 93008, 120782, 120792, 120802, 120812, 120822, 123200,
     123632, 125264, 130032}

Digits == UNION {zero..(zero + 9) : zero \in DigitZeros}

DigitValue(c) == c - (CHOOSE zero \in DigitZeros : c \in zero..(zero + 9))

RemoveCommas(text) == SelectSeq(text, LAMBDA c : c # Comma)

RECURSIVE DecimalValue(_)
DecimalValue(ds) ==
    IF Len(ds) = 0 THEN 0
    ELSE 10 * DecimalValue(SubSeq(ds, 1, Len(ds) - 1)) + DigitValue(ds[Len(ds)])

\* The ASCII blanks \t \n \v \f \r and the space, and the blanks of Unicode
\* beyond ASCII; the separators U+001C to U+001F are not among them.
Whitespace ==
    {9, 10, 11, 12, 13, 32} \cup
    {
     133, 160, 5760, 8192, 8193, 8194, 8195, 8196, 8197, 8198, 8199, 8200,
     8201, 8202, 8232, 8233, 8239, 8287, 12288}

RECURSIVE StripLeft(_)
StripLeft(text) ==
    IF Len(text) > 0 /\ Head(text) \in Whitespace THEN StripLeft(Tail(text))
    ELSE text

RECURSIVE StripRight(_)
StripRight(text) ==
    IF Len(text) > 0 /\ text[Len(text)] \in Whitespace
    THEN StripRight(SubSeq(text, 1, Len(text) - 1))
    ELSE text

Strip(text) == StripRight(StripLeft(text))

HasSign(text) == Len(text) > 0 /\ Head(text) \in {PlusSign, MinusSign}

\* The most digits int() converts (sys.get_int_max_str_digits(), the
\* default of the interpreter); a longer text is a ValueError.
int_max_str_digits == 4300

\* Digits, where an underscore stands only between two digits, and not more
\* digits than int() converts.
IsDigitString(body) ==
    /\ Len(body) > 0
    /\ Len(SelectSeq(body, LAMBDA c : c # Underscore)) <= int_max_str_digits
    /\ \A k \in 1..Len(body) :
          \/ body[k] \in Digits
          \/ /\ body[k] = Underscore
             /\ k > 1 /\ k < Len(body)
             /\ body[k - 1] \in Digits /\ body[k + 1] \in Digits

RemoveUnderscores(body) == SelectSeq(body, LAMBDA c : c # Underscore)

ParseInt(text) ==
    LET stripped == Strip(RemoveCommas(text))
        body == IF HasSign(stripped) THEN Tail(stripped) ELSE stripped
        magnitude == DecimalValue(RemoveUnderscores(body))
    IN IF IsDigitString(body)
       THEN Returned(PyInt(IF HasSign(stripped) /\ Head(stripped) = MinusSign
                           THEN 0 - magnitude ELSE magnitude))
       ELSE Raised("ValueError")

get_contributors_from_html(resp) ==
    IF RequestRaises(resp) THEN Raised(resp.exception)
    ELSE IF resp.status = 200
    THEN IF ~resp.anchor THEN Returned(None)
         ELSE IF resp.span
              THEN LET n == ParseInt(resp.title)
                   IN IF n.raised THEN Returned(None) ELSE n
              ELSE Returned(None)
    ELSE Returned(None)

\* The calls of the dict literal of get_repo_metadata, in its order, with
\* the request each of them issues.
SubResourceOutcomes(r) ==
    <<[request |-> "organization", outcome |-> get_repo_organization(r.org)],
      [request |-> "topics", outcome |-> get_repo_keywords(r.topics)],
      [request |-> "html", outcome |-> get_contributors_from_html(r.html)],
      [request |-> "readme", outcome |-> get_repo_readme(r.readme)],
      [request |-> "labels", outcome |-> get_repo_labels_count(r.labels)]>>

\* The calls of a sequence that are made: those up to the first that raises.
FirstRaised(calls) ==
    IF \E k \in DOMAIN calls : calls[k].outcome.raised
    THEN CHOOSE k \in DOMAIN calls :
             /\ calls[k].outcome.raised
             /\ \A j \in 1..(k - 1) : ~calls[j].outcome.raised
    ELSE 0

CallsMade(calls) ==
    IF FirstRaised(calls) = 0 THEN calls ELSE SubSeq(calls, 1, FirstRaised(calls))

\* The repository request of get_repo_metadata: the body is parsed on a
\* 200 response, and on any other response for its message.
RepoRequest(resp) ==
    IF RequestRaises(resp) THEN Raised(resp.exception) ELSE ResponseJson(resp)

\* The requests issued by get_repo_metadata, in the order of the dict literal.
MetadataCalls(r) ==
    IF ~RepoRequest(r.meta).raised /\ r.meta.status = 200
    THEN <<"repo">> \o
         [k \in DOMAIN CallsMade(SubResourceOutcomes(r)) |->
             SubResourceOutcomes(r)[k].request]
    ELSE <<"repo">>

get_repo_metadata(repo, r) ==
    LET data == RepoRequest(r.meta)
        calls == SubResourceOutcomes(r)
    IN IF data.raised THEN data
       ELSE IF r.meta.status = 200
       THEN IF FirstRaised(calls) # 0 THEN calls[FirstRaised(calls)].outcome
            ELSE Returned(PyDict(
                     [name |-> PyStr(repo),
                      owner |-> PyStr("acme"),
                      organization |-> calls[1].outcome.value,
                      stars |-> PyInt(10),
                      watchers |-> PyInt(10),
                      forks |-> PyInt(1),
                      open_issues |-> PyInt(0),
                      default_branch |-> PyStr("main"),
                      description |-> data.value.description,
                      html_url |-> data.value.html_url,
                      keywords |-> calls[2].outcome.value,
                      contributors_count |-> calls[3].outcome.value,
                      readme |-> calls[4].outcome.value,
                      labels_count |-> calls[5].outcome.value]))
       ELSE Returned(None)

(***************************************************************************)
(* format_languages.  A percentage is kept in hundredths of a percent      *)
(* (round(x, 2) of Python as an integer number of hundredths).             *)
(***************************************************************************)
RECURSIVE SumBytes(_)
SumBytes(items) ==
    IF Len(items) = 0 THEN 0
    ELSE items[1][2] + SumBytes(Tail(items))

\* Insert item x in a list sorted by bytes descending, after the items
\* with the same number of bytes (sorted() is stable, also with reverse).
RECURSIVE InsertByBytes(_, _)
InsertByBytes(sorted, x) ==
    IF Len(sorted) = 0 THEN <<x>>
    ELSE IF Head(sorted)[2] >= x[2]
         THEN <<Head(sorted)>> \o InsertByBytes(Tail(sorted), x)
         ELSE <<x>> \o sorted

RECURSIVE SortedByBytesDesc(_)
SortedByBytesDesc(items) ==
    IF Len(items) = 0 THEN <<>>
    ELSE InsertByBytes(SortedByBytesDesc(SubSeq(items, 1, Len(items) - 1)),
                       items[Len(items)])

\* round((bytes_used / total_bytes) * 100, 2) is float arithmetic: the
\* quotient is rounded to a double, its product with 100 is rounded to a
\* double, and round() gives the two-decimal number nearest to that double
\* (half to even when the double is exactly half way).  A positive double is
\* [m, e]: the 53 bits of its significand, first bit 1, most significant
\* first, and the exponent of its last bit; its value is m * 2^e.
SignificandBits == 53

\* n zero bits, none when n <= 0.
Zeros(n) == IF n > 0 THEN [k \in 1..n |-> 0] ELSE <<>>

RECURSIVE BitsValue(_)
BitsValue(bits) ==
    IF Len(bits) = 0 THEN 0
    ELSE 2 * BitsValue(SubSeq(bits, 1, Len(bits) - 1)) + bits[Len(bits)]

\* a + b + carry for two bit strings of one length: the bits of the sum
\* of that length and the carry out of them.  The low halves are added
\* first and hand their carry to the high halves.
RECURSIVE AddWithCarry(_, _, _)
AddWithCarry(a, b, carry) ==
    IF Len(a) = 0 THEN [bits |-> <<>>, carry |-> carry]
    ELSE IF Len(a) = 1
    THEN [bits |-> <<(a[1] + b[1] + carry) % 2>>,
          carry |-> (a[1] + b[1] + carry) \div 2]
    ELSE LET h == Len(a) \div 2
             low == AddWithCarry(SubSeq(a, h + 1, Len(a)),
                                 SubSeq(b, h + 1, Len(b)), carry)
             high == IF low.carry = 1
                     THEN AddWithCarry(SubSeq(a, 1, h), SubSeq(b, 1, h), 1)
                     ELSE AddWithCarry(SubSeq(a, 1, h), SubSeq(b, 1, h), 0)
         IN [bits |-> high.bits \o low.bits, carry |-> high.carry]

AddBits(a, b) ==
    LET n == IF Len(a) >= Len(b) THEN Len(a) ELSE Len(b)
        sum == AddWithCarry(Zeros(n - Len(a)) \o a, Zeros(n - Len(b)) \o b, 0)
    IN IF sum.carry = 1 THEN <<1>> \o sum.bits ELSE sum.bits

\* 100 = 64 + 32 + 4
Times100(bits) ==
    AddBits(AddBits(bits \o Zeros(6), bits \o Zeros(5)), bits \o Zeros(2))

\* Round to nearest, ties to even, given the bit after the kept ones and
\* whether anything but zeros follows it.
RoundsUp(lastKept, guard, sticky) == guard = 1 /\ (sticky \/ lastKept = 1)

\* The double nearest to bits * 2^e, for bits of at least 53 bits, first 1.
RoundToDouble(bits, e, stickyBelow) ==
    LET dropped == Len(bits) - SignificandBits
        kept == SubSeq(bits, 1, SignificandBits)
        guard == IF dropped > 0 THEN bits[SignificandBits + 1] ELSE 0
        sticky == stickyBelow \/
                  \E k \in (SignificandBits + 2)..Len(bits) : bits[k] = 1
        up == IF RoundsUp(kept[SignificandBits], guard, sticky)
              THEN AddBits(kept, <<1>>) ELSE kept
    IN IF Len(up) > SignificandBits
       THEN [m |-> SubSeq(up, 1, SignificandBits), e |-> e + dropped + 1]
       ELSE [m |-> up, e |-> e + dropped]

\* The doublings that bring a into [b, 2b), for 0 < a <= b < 2^31, and what
\* is left of a after them when b is taken away, a * 2^shift - b.  No
\* number of the computation is above b: a * 2^s >= b is written
\* a > (b - 1) \div 2^s, and 2h - b is h - (b - h).
MaxShift == 31

Normalized(a, b) ==
    LET shift == CHOOSE s \in 0..MaxShift :
                     /\ s < MaxShift => a > (b - 1) \div 2^s
                     /\ s > 0 => a <= (b - 1) \div 2^(s - 1)
        half == a * 2^(shift - 1)
    IN [shift |-> shift,
        rem |-> IF shift = 0 THEN a - b ELSE half - (b - half)]

\* n more bits of the quotient of the long division with remainder rem,
\* the first half of them before the second.
RECURSIVE QuotientBits(_, _, _)
QuotientBits(rem, b, n) ==
    IF n = 0 THEN [bits |-> <<>>, rem |-> rem]
    ELSE IF n = 1
    THEN IF rem >= b - rem THEN [bits |-> <<1>>, rem |-> rem - (b - rem)]
         ELSE [bits |-> <<0>>, rem |-> rem + rem]
    ELSE LET first == QuotientBits(rem, b, n \div 2)
             second == QuotientBits(first.rem, b, n - n \div 2)
         IN [bits |-> first.bits \o second.bits, rem |-> second.rem]

\* a / b for integers 0 < a <= b: 54 bits of the quotient, then rounded.
FloatDivide(a, b) ==
    LET start == Normalized(a, b)
        q == QuotientBits(start.rem, b, SignificandBits)
    IN RoundToDouble(<<1>> \o q.bits, 0 - SignificandBits - start.shift,
                     q.rem # 0)

FloatTimes100(x) == RoundToDouble(Times100(x.m), x.e, FALSE)

\* round(x, 2) in hundredths: the integer nearest to x * 100, half to even.
RoundHundredths(x) ==
    LET product == Times100(x.m)
        fraction_bits == 0 - x.e
        padded == Zeros(fraction_bits + 1 - Len(product)) \o product
        whole == BitsValue(SubSeq(padded, 1, Len(padded) - fraction_bits))
        first == Len(padded) - fraction_bits + 1
        sticky == \E k \in (first + 1)..Len(padded) : padded[k] = 1
    IN IF RoundsUp(whole % 2, padded[first], sticky) THEN whole + 1 ELSE whole

\* round((bytes_used / total_bytes) * 100, 2), in hundredths, for
\* 0 <= bytes_used <= total_bytes and 0 < total_bytes.
Percentage(bytes_used, total_bytes) ==
    IF bytes_used = 0 THEN 0
    ELSE RoundHundredths(FloatTimes100(FloatDivide(bytes_used, total_bytes)))

format_languages(languages) ==
    IF ~Truthy(languages) THEN Returned(None)
    ELSE LET total_bytes == SumBytes(languages.d)
             ordered == SortedByBytesDesc(languages.d)
         IN IF total_bytes = 0 THEN Raised("ZeroDivisionError")
            ELSE Returned(PyDict(
                   [total_bytes |-> total_bytes,
                    languages |->
                      [k \in 1..Len(ordered) |->
                         [language |-> ordered[k][1],
                          bytes |-> ordered[k][2],
                          percentage |-> Percentage(ordered[k][2], total_bytes)]],
                    description |-> "The 'bytes' field represents the total number of bytes of code written in this language, and 'percentage' shows its proportion relative to the total."]))

(***************************************************************************)
(* process_repo.                                                           *)
(***************************************************************************)
\* The filter with "<=" for "<": a count equal to the threshold is ignored.
Ignored_AtOrBelow(contributors_count, min_contributors) ==
    \/ contributors_count = None
    \/ /\ min_contributors # None
       /\ contributors_count.i <= min_contributors.i

\* The filter of process_repo: TRUE when the repository is ignored.
Ignored(contributors_count, min_contributors) ==
    \/ contributors_count = None
    \/ /\ min_contributors # None
       /\ contributors_count.i < min_contributors.i

OrValue(v, placeholder) == IF Truthy(v) THEN v ELSE placeholder

organized_data(metadata, languages_info) ==
    PyDict([name |-> metadata.d.name,
            owner |-> metadata.d.owner,
            organization |-> metadata.d.organization,
            stars |-> metadata.d.stars,
            watchers |-> metadata.d.watchers,
            forks |-> metadata.d.forks,
            open_issues |-> metadata.d.open_issues,
            default_branch |-> metadata.d.default_branch,
            description |-> OrValue(metadata.d.description, DescriptionPlaceholder),
            html_url |-> OrValue(metadata.d.html_url, LinkPlaceholder),
            contributors_count |-> metadata.d.contributors_count,
            keywords |-> metadata.d.keywords,
            languages_info |-> languages_info,
            readme |-> OrValue(metadata.d.readme, ReadmePlaceholder),
            labels_count |-> OrValue(metadata.d.labels_count, LabelsPlaceholder)])

\* The requests process_repo issues: those of get_repo_metadata, then, when
\* that call returned, the languages (which is requested before the
\* metadata is looked at).
ProcessCalls(repo, r) ==
    IF get_repo_metadata(repo, r).raised THEN MetadataCalls(r)
    ELSE MetadataCalls(r) \o <<"languages">>

process_repo(repo, r, min_contributors) ==
    LET fetched == get_repo_metadata(repo, r)
        fetched_languages == get_repo_languages(r.languages)
        metadata == fetched.value
        languages == fetched_languages.value
    IN IF fetched.raised THEN fetched
       ELSE IF fetched_languages.raised THEN fetched_languages
       ELSE IF metadata = None
       THEN Raised("TypeError")
       ELSE IF Ignored(metadata.d.contributors_count, min_contributors)
            THEN Returned(None)
            ELSE IF Truthy(languages)
                 THEN LET f == format_languages(languages)
                      IN IF f.raised THEN f
                         ELSE Returned(organized_data(metadata, f.value))
                 ELSE Returned(organized_data(metadata, LanguagesPlaceholder))

(***************************************************************************)
(* search_repositories_filtered.  The provider holds the list of the       *)
(* repositories that match (catalog) and serves it page by page; the       *)
(* request of page failPage is answered with a non-200 status.  Nothing in *)
(* the function catches an exception: a request that raises, or a body     *)
(* that is not JSON (parsed on a 200 response for its items and on any     *)
(* other response for its message), ends the call with that exception.     *)
(***************************************************************************)
Min(a, b) == IF a <= b THEN a ELSE b

\* A provider with a script answers page p with the p-th response of the
\* script, which starts again at its end (it can serve pages for ever) and
\* does not look at per_page.
SearchResponse(server, page, per_page) ==
    IF "script" \in DOMAIN server
    THEN server.script[((page - 1) % Len(server.script)) + 1]
    ELSE IF page = server.failPage THEN [status |-> 403]
    ELSE [status |-> 200,
          items |-> SubSeq(server.catalog, (page - 1) * per_page + 1,
                           Min(page * per_page, Len(server.catalog)))]

\* requests.get and response.json() of one pass of the loop.
SearchPage(response) ==
    IF RequestRaises(response) THEN Raised(response.exception)
    ELSE ResponseJson(response)

\* The loop: all_repos at its end, or the exception that ended it.
RECURSIVE SearchLoop(_, _, _, _, _)
SearchLoop(server, all_repos, page, per_page, max_repos) ==
    IF Len(all_repos) < max_repos
    THEN LET response == SearchResponse(server, page, per_page)
         IN IF SearchPage(response).raised THEN SearchPage(response)
            ELSE IF response.status = 200
            THEN IF Len(response.items) = 0 THEN Returned(all_repos)
                 ELSE SearchLoop(server, all_repos \o response.items,
                                 page + 1, per_page, max_repos)
            ELSE Returned(all_repos)
    ELSE Returned(all_repos)

\* The values of params['page'] of the requests of the loop, in order.
RECURSIVE SearchRequests(_, _, _, _, _)
SearchRequests(server, all_repos, page, per_page, max_repos) ==
    IF Len(all_repos) < max_repos
    THEN LET response == SearchResponse(server, page, per_page)
         IN <<page>> \o
            (IF /\ ~SearchPage(response).raised
                /\ response.status = 200
                /\ Len(response.items) # 0
             THEN SearchRequests(server, all_repos \o response.items,
                                 page + 1, per_page, max_repos)
             ELSE <<>>)
    ELSE <<>>

search_requests(server, per_page, max_repos) ==
    SearchRequests(server, <<>>, 1, Min(per_page, max_repos), max_repos)

search_repositories_filtered(server, per_page, max_repos) ==
    LET loop == SearchLoop(server, <<>>, 1, Min(per_page, max_repos), max_repos)
    IN IF loop.raised THEN loop
       ELSE IF Len(loop.value) # 0
       THEN Returned(PyList(SubSeq(loop.value, 1, Min(max_repos, Len(loop.value)))))
       ELSE Returned(None)

\* The catalogs of the model: the repositories alternate, or the same
\* repository is listed again and again (the search result is not
\* deduplicated).
Catalogs ==
    {[k \in 1..n |-> IF k % 2 = 1 THEN "widget" ELSE "gadget"] : n \in 0..MaxRepos}
    \cup {[k \in 1..n |-> "widget"] : n \in 2..MaxRepos}

Servers == [catalog : Catalogs, failPage : 0..2]

\* The answers that end the search with an exception: no response, a 200
\* response or an error response whose body is not JSON.
BrokenSearchResponses ==
    {NoResponse(e) : e \in RequestExceptions}
    \cup {MalformedBody(200), MalformedBody(403)}

\* Providers that break on the first request, or after one good page.
BrokenServers ==
    {[script |-> <<broken>>] : broken \in BrokenSearchResponses}
    \cup {[script |-> <<[status |-> 200, items |-> <<"widget">>], broken>>] :
              broken \in BrokenSearchResponses}

(***************************************************************************)
(* load_config and the configuration files of the model.                   *)
(***************************************************************************)
ConfigKeys == {"min_contributors", "threads", "number_of_repositories"}

\* The dict of a configuration file that sets "language" and the keys of
\* ConfigKeys whose value is not Absent.
ConfigDict(m, th, n) ==
    LET val == [k \in ConfigKeys |->
                  CASE k = "min_contributors" -> m
                    [] k = "threads" -> th
                    [] k = "number_of_repositories" -> n]
        keys == {k \in ConfigKeys : val[k] # Absent}
    IN PyDict([k \in keys \cup {"language"} |->
                 IF k = "language" THEN PyStr("python") ELSE val[k]])

EmptyDict == PyDict([k \in {} |-> None])

MinContributorsOptions == {Absent, None, PyInt(2)}
ThreadsOptions == {Absent, PyInt(2)}
NumberOfRepositoriesOptions == {Absent, PyInt(2)}

ConfigFiles ==
    {[kind |-> "missing"], [kind |-> "invalid"],
     [kind |-> "json", content |-> EmptyDict]} \cup
    {[kind |-> "json", content |-> ConfigDict(m, th, n)] :
        m \in MinContributorsOptions, th \in ThreadsOptions,
        n \in NumberOfRepositoriesOptions}

load_config(file) ==
    IF file.kind = "json" THEN file.content ELSE None

(***************************************************************************)
(* The responses the provider gives to the tasks of a batch.               *)
(***************************************************************************)
BatchResponses ==
    {FullResponses(<<51>>),
     FullResponses(<<48>>),
     [FullResponses(<<51>>) EXCEPT !.meta = [status |-> 404]]}

(***************************************************************************)
(* State.                                                                  *)
(***************************************************************************)
VARIABLES
    config_file,            \* the file configs.json of the host
    cpu_count,              \* multiprocessing.cpu_count() of the host
    pc,                     \* position of main()
    config,                 \* main: config
    min_contributors,       \* main: min_contributors
    number_of_repositories, \* main: number_of_repositories
    num_threads,            \* main: num_threads
    repositories,           \* main: repositories
    status,                 \* state of the future of each repository
    result,                 \* outcome of process_repo of each finished future
    all_metadata,           \* main: all_metadata
    settled,                \* the futures as_completed has delivered, in order
    error_log,              \* the repositories of the "Erro ao processar" lines
    save_called,            \* save_metadata_to_json has been called
    output_file,            \* content of output.json: None when not written,
                            \* PartialFile when the write broke off
    p_pc,                   \* ProcSpec: position of the call of process_repo
    p_resp,                 \* ProcSpec: the responses of the provider
    p_config,               \* ProcSpec: the configuration main has loaded
    p_min,                  \* ProcSpec: the min_contributors argument
    p_out,                  \* ProcSpec: the outcome of process_repo
    p_calls,                \* ProcSpec: the requests process_repo has issued
    c_pc,                   \* ContribSpec: position of get_repo_contributors
    c_page,                 \* get_repo_contributors: page
    c_total,                \* get_repo_contributors: total_contributors
    c_log,                  \* ContribSpec: the responses received, in order
    c_result,               \* ContribSpec: the outcome of get_repo_contributors
    f_pc,                   \* FmtSpec: position of the call of format_languages
    f_in,                   \* FmtSpec: the languages argument
    f_out,                  \* FmtSpec: the outcome of format_languages
    s_pc,                   \* SearchSpec: position of the call of the search
    s_server,               \* SearchSpec: the provider
    s_max_repos,            \* SearchSpec: the max_repos argument
    s_requests,             \* SearchSpec: the pages requested, in order
    s_result                \* SearchSpec: what the search returned

mainVars == <<config_file, cpu_count, pc, config, min_contributors,
              number_of_repositories, num_threads, repositories, status,
              result, all_metadata, settled, error_log, save_called,
              output_file>>
procVars == <<p_pc, p_resp, p_config, p_min, p_out, p_calls>>
contribVars == <<c_pc, c_page, c_total, c_log, c_result>>
fmtVars == <<f_pc, f_in, f_out>>
searchVars == <<s_pc, s_server, s_max_repos, s_requests, s_result>>
vars == <<mainVars, procVars, contribVars, fmtVars, searchVars>>

Unset == [t |-> "unset"]

Repos == IF repositories.t = "list" THEN repositories.l ELSE <<>>
Tasks == DOMAIN status
Running == {i \in Tasks : status[i] = "running"}

MainStart ==
    /\ pc = "start"
    /\ config = Unset
    /\ min_contributors = Unset
    /\ number_of_repositories = Unset
    /\ num_threads = Unset
    /\ repositories = Unset
    /\ status = <<>>
    /\ result = <<>>
    /\ all_metadata = <<>>
    /\ settled = <<>>
    /\ error_log = <<>>
    /\ save_called = FALSE
    /\ output_file = None

ProcIdle ==
    /\ p_pc = "idle"
    /\ p_resp = Unset
    /\ p_config = Unset
    /\ p_min = Unset
    /\ p_out = Unset
    /\ p_calls = <<>>

ContribIdle ==
    /\ c_pc = "idle"
    /\ c_page = 0
    /\ c_total = 0
    /\ c_log = <<>>
    /\ c_result = Unset

FmtIdle ==
    /\ f_pc = "idle"
    /\ f_in = Unset
    /\ f_out = Unset

SearchIdle ==
    /\ s_pc = "idle"
    /\ s_server = Unset
    /\ s_max_repos = 0
    /\ s_requests = <<>>
    /\ s_result = Unset

Init ==
    /\ config_file \in ConfigFiles
    /\ cpu_count \in 1..MaxCpu
    /\ MainStart
    /\ ProcIdle
    /\ ContribIdle
    /\ FmtIdle
    /\ SearchIdle

(***************************************************************************)
(* main().                                                                 *)
(***************************************************************************)
\* config.get("min_contributors", 1)
ConfigMinContributors(c) == DictGet(c, "min_contributors", PyInt(DefaultMinContributors))

\* config.get("threads", cpu_count // 2)
ConfigThreads(c, cpus) == DictGet(c, "threads", PyInt(cpus \div 2))

\* config.get("number_of_repositories", 20)
ConfigNumberOfRepositories(c) ==
    DictGet(c, "number_of_repositories", PyInt(DefaultNumberOfRepositories))

\* load_config, the early return and the reading of the options.
LoadConfig ==
    /\ pc = "start"
    /\ LET c == load_config(config_file)
       IN /\ config' = c
          /\ IF ~Truthy(c)
             THEN /\ pc' = "returned"
                  /\ UNCHANGED <<min_contributors, number_of_repositories, num_threads>>
             ELSE /\ pc' = "search"
                  /\ min_contributors' = ConfigMinContributors(c)
                  /\ number_of_repositories' = ConfigNumberOfRepositories(c)
                  /\ num_threads' = ConfigThreads(c, cpu_count)
    /\ UNCHANGED <<config_file, cpu_count, repositories, status, result,
                   all_metadata, settled, error_log, save_called, output_file>>
    /\ UNCHANGED <<procVars, contribVars, fmtVars, searchVars>>

\* main going on to the pool without the "if not repositories" return.
PcAfterSearch_NoReturn(found) == "pool"

\* "if not repositories: return"
PcAfterSearch(found) == IF Truthy(found) THEN "pool" ELSE "returned"

\* The search, the early return when nothing was found, all_metadata = [].
\* main calls the search outside any try: its exception ends main.
Search ==
    /\ pc = "search"
    /\ \E server \in Servers \cup BrokenServers :
         LET found == search_repositories_filtered(server, SearchPerPage,
                                                   number_of_repositories.i)
         IN IF found.raised
            THEN /\ pc' = "crashed"
                 /\ UNCHANGED repositories
            ELSE /\ repositories' = found.value
                 /\ pc' = PcAfterSearch(found.value)
    /\ UNCHANGED <<config_file, cpu_count, config, min_contributors,
                   number_of_repositories, num_threads, status, result,
                   all_metadata, settled, error_log, save_called, output_file>>
    /\ UNCHANGED <<procVars, contribVars, fmtVars, searchVars>>

\* The futures of the dict comprehension: a dict keyed by the future of each
\* submit call has one entry per position of the list.
FuturesOf_ByName(repos) ==
    {i \in 1..Len(repos) : \A j \in 1..(i - 1) : repos[j] # repos[i]}

FuturesOf(repos) == 1..Len(repos)

\* ThreadPoolExecutor(max_workers=num_threads): a ValueError when
\* max_workers <= 0, which nothing in main catches.
CreatePool ==
    /\ pc = "pool"
    /\ IF num_threads.i <= 0
       THEN /\ pc' = "crashed"
            /\ UNCHANGED <<status, result>>
       ELSE /\ pc' = "submit"
            /\ status' = [i \in FuturesOf(Repos) |-> "new"]
            /\ result' = [i \in FuturesOf(Repos) |-> Unset]
    /\ UNCHANGED <<config_file, cpu_count, config, min_contributors,
                   number_of_repositories, num_threads, repositories,
                   all_metadata, settled, error_log, save_called, output_file>>
    /\ UNCHANGED <<procVars, contribVars, fmtVars, searchVars>>

\* executor.submit(process_repo, api, repo, min_contributors) for the next
\* repository of the list.
Submit(i) ==
    /\ pc = "submit"
    /\ i \in Tasks
    /\ status[i] = "new"
    /\ \A j \in Tasks : j < i => status[j] # "new"
    /\ status' = [status EXCEPT ![i] = "pending"]
    /\ pc' = IF i = Len(Repos) THEN "collect" ELSE "submit"
    /\ UNCHANGED <<config_file, cpu_count, config, min_contributors,
                   number_of_repositories, num_threads, repositories, result,
                   all_metadata, settled, error_log, save_called, output_file>>
    /\ UNCHANGED <<procVars, contribVars, fmtVars, searchVars>>

\* A pool that starts a thread for every work item.
PoolHasFreeWorker_Unbounded(i) == TRUE

\* The workers take the work items from the queue oldest first, and each
\* marks the future of its item running on its own: when a worker marks
\* task i, every earlier task that is still pending is in the hands of
\* another worker, which has not marked it yet, and every running task has
\* a worker too.
HeldByWorkers(i) == Running \cup {j \in Tasks : j < i /\ status[j] = "pending"}

PoolHasFreeWorker(i) == Cardinality(HeldByWorkers(i)) < num_threads.i

Start(i) ==
    /\ i \in Tasks
    /\ status[i] = "pending"
    /\ PoolHasFreeWorker(i)
    /\ status' = [status EXCEPT ![i] = "running"]
    /\ UNCHANGED <<config_file, cpu_count, pc, config, min_contributors,
                   number_of_repositories, num_threads, repositories, result,
                   all_metadata, settled, error_log, save_called, output_file>>
    /\ UNCHANGED <<procVars, contribVars, fmtVars, searchVars>>

\* The worker runs process_repo to its end; the future holds its outcome.
Finish(i) ==
    /\ i \in Tasks
    /\ status[i] = "running"
    /\ \E r \in BatchResponses :
         result' = [result EXCEPT ![i] = process_repo(Repos[i], r, min_contributors)]
    /\ status' = [status EXCEPT ![i] = "finished"]
    /\ UNCHANGED <<config_file, cpu_count, pc, config, min_contributors,
                   number_of_repositories, num_threads, repositories,
                   all_metadata, settled, error_log, save_called, output_file>>
    /\ UNCHANGED <<procVars, contribVars, fmtVars, searchVars>>

\* The loop body without "if data": the None of an excluded repository is
\* appended too.
CollectedMetadata_AppendsNone(metadata, outcome) ==
    IF ~outcome.raised
    THEN Append(metadata, outcome.value)
    ELSE metadata

\* One iteration of "for future in as_completed(futures)".
CollectedMetadata(metadata, outcome) ==
    IF ~outcome.raised /\ Truthy(outcome.value)
    THEN Append(metadata, outcome.value)
    ELSE metadata

CollectedErrors(log, outcome, repo) ==
    IF outcome.raised THEN Append(log, repo) ELSE log

\* The loop body without try/except: the exception of future.result()
\* leaves main.
PcAfterResult_Uncaught(outcome) == IF outcome.raised THEN "crashed" ELSE "collect"

\* "except Exception" catches whatever future.result() raises: the loop
\* goes on with the next future.
PcAfterResult(outcome) == "collect"

Collect(i) ==
    /\ pc = "collect"
    /\ i \in Tasks
    /\ status[i] = "finished"
    /\ status' = [status EXCEPT ![i] = "collected"]
    /\ pc' = PcAfterResult(result[i])
    /\ all_metadata' = CollectedMetadata(all_metadata, result[i])
    /\ error_log' = CollectedErrors(error_log, result[i], Repos[i])
    /\ settled' = Append(settled, i)
    /\ UNCHANGED <<config_file, cpu_count, config, min_contributors,
                   number_of_repositories, num_threads, repositories, result,
                   save_called, output_file>>
    /\ UNCHANGED <<procVars, contribVars, fmtVars, searchVars>>

\* as_completed is exhausted, the with block ends, save_metadata_to_json
\* writes the file or catches the IOError: of open(), and then there is no
\* new file, or of a write of json.dump, and then the file holds only a
\* part of the text.
PartialFile == [t |-> "partial"]

SaveOutcomes(metadata) == {None, PartialFile, PyList(metadata)}

AllCollected == \A i \in Tasks : status[i] = "collected"

Save ==
    /\ pc = "collect"
    /\ AllCollected
    /\ pc' = "saved"
    /\ save_called' = TRUE
    /\ output_file' \in SaveOutcomes(all_metadata)
    /\ UNCHANGED <<config_file, cpu_count, config, min_contributors,
                   number_of_repositories, num_threads, repositories, status,
                   result, all_metadata, settled, error_log>>
    /\ UNCHANGED <<procVars, contribVars, fmtVars, searchVars>>

Next ==
    \/ LoadConfig
    \/ Search
    \/ CreatePool
    \/ \E i \in Tasks : Submit(i)
    \/ \E i \in Tasks : Start(i)
    \/ \E i \in Tasks : Finish(i)
    \/ \E i \in Tasks : Collect(i)
    \/ Save

Spec == Init /\ [][Next]_vars

\* Every call returns and the pool runs its workers: some thread that can
\* take a step eventually takes one.
FairSpec == Spec /\ WF_vars(Next)

(***************************************************************************)
(* ProcSpec: one call of process_repo, as main calls it.                   *)
(***************************************************************************)
ProcConfigs ==
    {ConfigDict(m, Absent, Absent) : m \in MinContributorsOptions \cup {PyInt(5)}}

ProcInit ==
    /\ config_file = [kind |-> "missing"]
    /\ cpu_count = 1
    /\ MainStart
    /\ p_pc = "call"
    /\ p_resp \in AllResponses
    /\ p_config \in ProcConfigs
    /\ p_min = Unset
    /\ p_out = Unset
    /\ p_calls = <<>>
    /\ ContribIdle
    /\ FmtIdle
    /\ SearchIdle

ProcRun ==
    /\ p_pc = "call"
    /\ p_pc' = "done"
    /\ p_min' = ConfigMinContributors(p_config)
    /\ p_out' = process_repo("widget", p_resp, ConfigMinContributors(p_config))
    /\ p_calls' = ProcessCalls("widget", p_resp)
    /\ UNCHANGED <<p_resp, p_config>>
    /\ UNCHANGED <<mainVars, contribVars, fmtVars, searchVars>>

ProcNext == ProcRun

ProcSpec == ProcInit /\ [][ProcNext]_vars

(***************************************************************************)
(* get_repo_contributors.  The body of a 200 response is the list of the   *)
(* contributors of the page; the call looks only at its length (size).     *)
(* The provider may ignore per_page: one page size of the model is larger. *)
(***************************************************************************)
PageSizes == {0, 40, 55, ContributorsPerPage, 450}

ContribResponses ==
    {[status |-> 403], [status |-> 404]} \cup
    {[status |-> 200, size |-> n] : n \in PageSizes}

\* The cap with ">=" for ">" on the threshold.
CapHit_AtThreshold(page, total) ==
    page > max_pages \/ total >= estimation_threshold

\* The cap without the threshold.
CapHit_PagesOnly(page, total) == page > max_pages

\* The cap without the page count.
CapHit_ThresholdOnly(page, total) == total > estimation_threshold

\* "if page > max_pages or total_contributors > estimation_threshold"
CapHit(page, total) ==
    page > max_pages \/ total > estimation_threshold

\* The estimate that is the raw total.
Estimate_RawTotal(total, page) == Returned(PyInt(total))

\* int(total_contributors / (page - 1) * page).  page - 1 and page have no
\* common factor, so the float quotient is exact whenever the product is an
\* integer and int() gives the floor of the exact value.
Estimate(total, page) ==
    IF page - 1 = 0 THEN Raised("ZeroDivisionError")
    ELSE Returned(PyInt((total * page) \div (page - 1)))

ContributorCount(count, estimated) ==
    PyDict([contributors_count |-> count, estimated |-> estimated])

\* A non-200 response answered with the total counted so far.
ErrorResult_Partial(status_code, total) ==
    Returned(ContributorCount(PyInt(total), FALSE))

\* "elif response.status_code == 403: return None" and "else: return None"
ErrorResult(status_code, total) == Returned(None)

\* One iteration of "while True" where the cap is tested before page += 1.
contributors_iteration_LatePage(page, total, response) ==
    IF response.status = 200
    THEN IF response.size = 0
         THEN [done |-> TRUE, page |-> page, total |-> total,
               result |-> Returned(ContributorCount(PyInt(total), FALSE))]
         ELSE LET new_total == total + response.size
              IN IF CapHit(page, new_total)
                 THEN LET e == Estimate(new_total, page)
                      IN [done |-> TRUE, page |-> page, total |-> new_total,
                          result |-> IF e.raised THEN e
                                     ELSE Returned(ContributorCount(e.value, TRUE))]
                 ELSE [done |-> FALSE, page |-> page + 1, total |-> new_total,
                       result |-> Unset]
    ELSE [done |-> TRUE, page |-> page, total |-> total,
          result |-> ErrorResult(response.status, total)]

\* One iteration of "while True": the request of the page and what the call
\* does with the response.
contributors_iteration(page, total, response) ==
    IF response.status = 200
    THEN IF response.size = 0
         THEN [done |-> TRUE, page |-> page, total |-> total,
               result |-> Returned(ContributorCount(PyInt(total), FALSE))]
         ELSE LET new_total == total + response.size
                  new_page == page + 1
              IN IF CapHit(new_page, new_total)
                 THEN LET e == Estimate(new_total, new_page)
                      IN [done |-> TRUE, page |-> new_page, total |-> new_total,
                          result |-> IF e.raised THEN e
                                     ELSE Returned(ContributorCount(e.value, TRUE))]
                 ELSE [done |-> FALSE, page |-> new_page, total |-> new_total,
                       result |-> Unset]
    ELSE [done |-> TRUE, page |-> page, total |-> total,
          result |-> ErrorResult(response.status, total)]

ContribInit ==
    /\ config_file = [kind |-> "missing"]
    /\ cpu_count = 1
    /\ MainStart
    /\ ProcIdle
    /\ FmtIdle
    /\ SearchIdle
    /\ c_pc = "loop"
    /\ c_page = 1
    /\ c_total = 0
    /\ c_log = <<>>
    /\ c_result = Unset

ContribRequest ==
    /\ c_pc = "loop"
    /\ \E response \in ContribResponses :
         LET it == contributors_iteration(c_page, c_total, response)
         IN /\ c_pc' = IF it.done THEN "done" ELSE "loop"
            /\ c_page' = it.page
            /\ c_total' = it.total
            /\ c_result' = it.result
            /\ c_log' = Append(c_log, response)
    /\ UNCHANGED <<mainVars, procVars, fmtVars, searchVars>>

ContribNext == ContribRequest

ContribSpec == ContribInit /\ [][ContribNext]_vars

(***************************************************************************)
(* FmtSpec: one call of format_languages.                                  *)
(***************************************************************************)
MaxLanguages == 3
LanguageNames == {"C", "Go", "Python"}
ByteCounts == {0, 1, 2, 23, 100, 137}

LanguageMappings ==
    UNION {{m \in [1..n -> LanguageNames \X ByteCounts] :
              \A a, b \in 1..n : a # b => m[a][1] # m[b][1]} : n \in 0..MaxLanguages}

FmtInit ==
    /\ config_file = [kind |-> "missing"]
    /\ cpu_count = 1
    /\ MainStart
    /\ ProcIdle
    /\ ContribIdle
    /\ SearchIdle
    /\ f_pc = "call"
    /\ f_in \in {None} \cup {PyDict(m) : m \in LanguageMappings}
    /\ f_out = Unset

FmtRun ==
    /\ f_pc = "call"
    /\ f_pc' = "done"
    /\ f_out' = format_languages(f_in)
    /\ UNCHANGED f_in
    /\ UNCHANGED <<mainVars, procVars, contribVars, searchVars>>

FmtNext == FmtRun

FmtSpec == FmtInit /\ [][FmtNext]_vars

(***************************************************************************)
(* SearchSpec: one call of search_repositories_filtered.                   *)
(***************************************************************************)
MaxScript == 2

PageItems ==
    {<<>>, <<"widget">>, <<"gadget">>, <<"widget", "gadget">>,
     <<"gadget", "gadget">>}

SearchPageResponses ==
    {[status |-> 403]} \cup {[status |-> 200, items |-> it] : it \in PageItems}
    \cup BrokenSearchResponses

ScriptedServers ==
    UNION {{[script |-> sc] : sc \in [1..n -> SearchPageResponses]} : n \in 1..MaxScript}

MaxReposArguments == {0, 1, 2, 3, DefaultNumberOfRepositories}

SearchInit ==
    /\ config_file = [kind |-> "missing"]
    /\ cpu_count = 1
    /\ MainStart
    /\ ProcIdle
    /\ ContribIdle
    /\ FmtIdle
    /\ s_pc = "call"
    /\ s_server \in ScriptedServers \cup Servers
    /\ s_max_repos \in MaxReposArguments
    /\ s_requests = <<>>
    /\ s_result = Unset

SearchRun ==
    /\ s_pc = "call"
    /\ s_pc' = "done"
    /\ s_result' = search_repositories_filtered(s_server, SearchPerPage, s_max_repos)
    /\ s_requests' = search_requests(s_server, SearchPerPage, s_max_repos)
    /\ UNCHANGED <<s_server, s_max_repos>>
    /\ UNCHANGED <<mainVars, procVars, contribVars, fmtVars>>

SearchNext == SearchRun

SearchSpec == SearchInit /\ [][SearchNext]_vars

(***************************************************************************)
(* Properties of the batch collection loop (Spec, FairSpec).               *)
(***************************************************************************)
IsRecord(outcome) == ~outcome.raised /\ outcome.value # None
IsExcluded(outcome) == ~outcome.raised /\ outcome.value = None
Settled == {i \in Tasks : status[i] = "collected"}
RaisedTasks == {i \in Tasks : status[i] \in {"finished", "collected"} /\ result[i].raised}

\* The records of the futures of order, in that order.
RECURSIVE RecordsOf(_)
RecordsOf(order) ==
    IF Len(order) = 0 THEN <<>>
    ELSE LET rest == RecordsOf(SubSeq(order, 1, Len(order) - 1))
             last == result[order[Len(order)]]
         IN IF IsRecord(last) THEN Append(rest, last.value) ELSE rest

\* C1: at every moment all_metadata holds exactly one record per settled
\* task whose process_repo returned a record, in the order in which the
\* tasks settled (were delivered by as_completed), and nothing for the
\* tasks that were excluded or raised; each task settles at most once, and
\* when every task has settled the collection is exactly the records of
\* the tasks that returned one.
C1_CollectionIsSettledRecords ==
    /\ all_metadata = RecordsOf(settled)
    /\ {settled[k] : k \in DOMAIN settled} = Settled
    /\ \A a, b \in DOMAIN settled : a # b => settled[a] # settled[b]
    /\ pc = "saved" =>
         /\ Settled = 1..Len(Repos)
         /\ Len(all_metadata) = Cardinality({i \in Tasks : IsRecord(result[i])})

C1_Witness ==
    /\ pc = "saved"
    /\ Len(Repos) = 3
    /\ settled = <<2, 3, 1>>
    /\ IsRecord(result[1])
    /\ IsRecord(result[2])
    /\ IsExcluded(result[3])
    /\ all_metadata = <<result[2].value, result[1].value>>
    /\ result[1].value # result[2].value

\* C2: a task that raises is caught by the collector and logged, its item
\* is omitted and the loop goes on: main never stops because of it, and
\* when the batch is saved every task has settled and the collection has
\* one record per task that returned one, so at most N-1 records of N
\* tasks when one raised.
C2_FailureIsIsolated ==
    /\ RaisedTasks # {} => pc \in {"submit", "collect", "saved"}
    /\ Len(error_log) = Cardinality(Settled \cap RaisedTasks)
    /\ pc = "saved" =>
         /\ \A i \in Tasks : status[i] = "collected"
         /\ Len(all_metadata) =
              Len(Repos) - Cardinality(RaisedTasks)
                         - Cardinality({i \in Tasks : IsExcluded(result[i])})
         /\ RaisedTasks # {} => Len(all_metadata) <= Len(Repos) - 1
         /\ output_file \notin {None, PartialFile} => output_file.l = all_metadata

C2_Witness ==
    /\ pc = "saved"
    /\ Len(Repos) = 3
    /\ Cardinality(RaisedTasks) = 1
    /\ Len(all_metadata) = 2
    /\ Len(error_log) = 1
    /\ settled[1] \in RaisedTasks

\* C7: once the submit statement is done every identifier of the candidate
\* list has a future, and in every state the number of repositories being
\* processed is at most num_threads.
C7_BoundedDispatch ==
    /\ pc \in {"submit", "collect", "saved"} =>
         /\ Tasks = 1..Len(Repos)
         /\ Cardinality(Running) <= num_threads.i
    /\ pc \in {"collect", "saved"} => \A i \in Tasks : status[i] # "new"
    /\ pc = "saved" => \A i \in Tasks : result[i] # Unset

C7_Witness ==
    /\ Len(Repos) = 3
    /\ num_threads = PyInt(2)
    /\ Cardinality(Running) = 2
    /\ \E i \in Tasks : status[i] = "pending"

\* C8: when the configuration does not set "threads", the pool size is
\* half the number of CPUs of the host and at least 1, so that the pool
\* can be created.
ThreadsDefaulted ==
    /\ num_threads # Unset
    /\ "threads" \notin DOMAIN config.d

C8_DefaultThreadsAtLeastOne ==
    ThreadsDefaulted =>
        /\ num_threads = PyInt(cpu_count \div 2)
        /\ num_threads.i >= 1
        /\ pc # "crashed"

\* C9: save_metadata_to_json is called only when every dispatched task has
\* settled, and a batch that has a candidate list always eventually gets
\* there.
C9_BatchCompletes ==
    /\ [](save_called => Settled = 1..Len(Repos))
    /\ (pc = "pool") ~> save_called

\* C10: save_metadata_to_json is called, and the output file written, only
\* in a run that loaded a configuration and found at least one repository;
\* when load_config gives nothing or the search finds nothing main has
\* returned without calling it.
ConfigLoaded == config # Unset /\ Truthy(config)
SearchFound == repositories # Unset /\ repositories # None /\ Len(Repos) >= 1

C10_NoOutputWithoutInput ==
    /\ save_called => ConfigLoaded /\ SearchFound
    /\ output_file # None => save_called
    /\ (config # Unset /\ ~Truthy(config)) => pc = "returned" /\ ~save_called
    /\ repositories = None => pc = "returned" /\ ~save_called

C10_Witness ==
    /\ pc = "returned"
    /\ ConfigLoaded
    /\ repositories = None
    /\ ~save_called
    /\ output_file = None

(***************************************************************************)
(* Properties of process_repo (ProcSpec).                                  *)
(***************************************************************************)
ProcDone == p_pc = "done"
\* A request of the call broke: it got no response, or a body that the
\* fetcher parses was not JSON.
Broken(kind) == RequestRaises(p_resp[kind]) \/ BodyMalformed(p_resp[kind])
NoRequestBroken == \A kind \in RequestKinds : ~Broken(kind)

\* The call got to its filter with a metadata dict.
MetadataFetched == NoRequestBroken /\ p_resp.meta.status = 200
FetchedCount == get_contributors_from_html(p_resp.html).value

\* C3: process_repo never raises, whatever the responses are.
C3_ProcessNeverRaises == ProcDone => ~p_out.raised

\* C4: a call of process_repo that gets as far as its filter returns no
\* record if and only if the contributor count is unavailable, or
\* min_contributors is set and the count is strictly below it; a count equal
\* to the threshold is kept, and without a threshold no count excludes.
BelowThreshold ==
    /\ FetchedCount # None
    /\ p_min # None
    /\ FetchedCount.i < p_min.i

C4_ExcludedIffFiltered ==
    (ProcDone /\ MetadataFetched) =>
        /\ IsExcluded(p_out) <=> (FetchedCount = None \/ BelowThreshold)
        /\ (FetchedCount # None /\ p_min # None /\ FetchedCount.i = p_min.i)
              => ~IsExcluded(p_out)
        /\ (FetchedCount # None /\ p_min = None) => ~IsExcluded(p_out)
        /\ IsRecord(p_out) => p_out.value.d.contributors_count = FetchedCount

C4_Witness ==
    /\ ProcDone
    /\ MetadataFetched
    /\ FetchedCount = PyInt(3)
    /\ p_min = PyInt(5)
    /\ p_out = Returned(None)

\* C5: in a returned record every optional field whose fetch failed holds a
\* placeholder string, and no field is null.
FetchFailed(field) ==
    CASE field = "description" -> p_resp.meta.description = None
      [] field = "html_url" -> p_resp.meta.html_url = None
      [] field = "keywords" -> p_resp.topics.status # 200
      [] field = "languages_info" -> p_resp.languages.status # 200
      [] field = "readme" -> p_resp.readme.status # 200
      [] field = "labels_count" -> p_resp.labels.status # 200
      [] field = "organization" -> p_resp.org.status # 200
      [] OTHER -> FALSE

C5_NoNullField ==
    (ProcDone /\ IsRecord(p_out)) =>
        \A field \in DOMAIN p_out.value.d :
            /\ p_out.value.d[field] # None
            /\ FetchFailed(field) => p_out.value.d[field].t = "str"

\* C6: when the README, topics, labels or languages request fails (a
\* non-200 response, no response, or a body that is not JSON) while the
\* other requests are answered, every request of the repository is still
\* issued, the call does not raise, and a repository that passes the filter
\* is returned as a record, with the placeholder in the field of a failed
\* README, labels or languages request and the fetched values in the other
\* fields.
LocalizedKinds == {"topics", "readme", "labels", "languages"}
TransportFailed(kind) == Broken(kind) \/ p_resp[kind].status # 200
SomeFetchFailed == \E k \in LocalizedKinds : TransportFailed(k)

C6_FetchFailureIsLocalized ==
    (/\ ProcDone
     /\ \A kind \in RequestKinds \ LocalizedKinds : ~Broken(kind)
     /\ p_resp.meta.status = 200
     /\ SomeFetchFailed) =>
        /\ p_calls = <<"repo", "organization", "topics", "html", "readme",
                       "labels", "languages">>
        /\ ~p_out.raised
        /\ (FetchedCount # None /\ ~BelowThreshold) =>
              /\ IsRecord(p_out)
              /\ TransportFailed("readme") =>
                    p_out.value.d.readme = ReadmePlaceholder
              /\ TransportFailed("labels") =>
                    p_out.value.d.labels_count = LabelsPlaceholder
              /\ TransportFailed("languages") =>
                    p_out.value.d.languages_info = LanguagesPlaceholder
              /\ ~TransportFailed("readme") /\ p_resp.readme.text # "" =>
                    p_out.value.d.readme = PyStr(p_resp.readme.text)
              /\ ~TransportFailed("topics") =>
                    p_out.value.d.keywords = PyList(p_resp.topics.names)
              /\ p_out.value.d.contributors_count = FetchedCount
              /\ p_out.value.d.name = PyStr("widget")

\* C11: the candidate list is not deduplicated: every position of the list
\* has its own future, also when the identifier occurs at other positions,
\* each future settles on its own, and at the save the collection has, for
\* every identifier, one record per occurrence whose task returned a record.
Occurrences(id) == {i \in 1..Len(Repos) : Repos[i] = id}
RecordsNamed(id) == {k \in DOMAIN all_metadata : all_metadata[k].d.name = PyStr(id)}

C11_NoDeduplication ==
    /\ pc \in {"submit", "collect", "saved"} =>
         \A id \in RepoIds : Cardinality({i \in Tasks : Repos[i] = id})
                               = Cardinality(Occurrences(id))
    /\ pc = "saved" =>
         /\ Len(settled) = Len(Repos)
         /\ \A id \in RepoIds :
              Cardinality(RecordsNamed(id))
                = Cardinality({i \in Occurrences(id) : IsRecord(result[i])})

C11_Witness ==
    /\ pc = "saved"
    /\ Repos = <<"widget", "gadget", "widget">>
    /\ Len(all_metadata) = 3
    /\ Cardinality(RecordsNamed("widget")) = 2
    /\ all_metadata[1] = all_metadata[3]

(***************************************************************************)
(* Properties of get_repo_contributors (ContribSpec).                      *)
(***************************************************************************)
ContribDone == c_pc = "done"
IsEmptyPage(r) == r.status = 200 /\ r.size = 0
IsFullPage(r) == r.status = 200 /\ r.size > 0
PagesCounted == Cardinality({k \in DOMAIN c_log : IsFullPage(c_log[k])})

RECURSIVE SumSizes(_)
SumSizes(log) ==
    IF Len(log) = 0 THEN 0
    ELSE (IF Head(log).status = 200 THEN Head(log).size ELSE 0) + SumSizes(Tail(log))

LastResponse == c_log[Len(c_log)]
HasCount == ContribDone /\ ~c_result.raised /\ c_result.value # None
IsExact == HasCount /\ ~c_result.value.d.estimated
IsEstimated == HasCount /\ c_result.value.d.estimated
CountOf == c_result.value.d.contributors_count.i
CapOnLog == PagesCounted + 1 > max_pages \/ SumSizes(c_log) > estimation_threshold

\* C12: the call returns an exact result (estimated false, count the sum of
\* the sizes of the pages fetched) exactly when it ends on an empty page, and
\* an estimated result exactly when it ends on a non-empty page after which
\* the page index is above max_pages or the total above the threshold; as
\* long as neither cap is hit after a non-empty page the call goes on.
C12_ExactOrEstimated ==
    /\ ContribDone =>
         /\ IsExact <=> IsEmptyPage(LastResponse)
         /\ IsExact => CountOf = SumSizes(c_log)
         /\ IsEstimated <=> (IsFullPage(LastResponse) /\ CapOnLog)
    /\ ~ContribDone =>
         /\ \A k \in DOMAIN c_log : IsFullPage(c_log[k])
         /\ ~CapOnLog

C12_Witness ==
    /\ ContribDone
    /\ c_log = <<[status |-> 200, size |-> 40], [status |-> 200, size |-> 55],
                 [status |-> 200, size |-> 0]>>
    /\ c_result = Returned(ContributorCount(PyInt(95), FALSE))

\* C13: a call that stops on a cap returns estimated = true and the count
\* int(total / (page - 1) * page), with total the sum of the pages fetched
\* and page - 1 their number; the count is above the raw total.
C13_EstimateIsExtrapolation ==
    (ContribDone /\ IsFullPage(LastResponse)) =>
        /\ IsEstimated
        /\ CountOf = (SumSizes(c_log) * (PagesCounted + 1)) \div PagesCounted
        /\ CountOf > SumSizes(c_log)

C13_Witness ==
    /\ ContribDone
    /\ IsEstimated
    /\ c_total = 405
    /\ c_page = 7
    /\ CountOf = 472
    /\ CountOf > estimation_threshold

\* C14: a 403 response, and any other response that is not a 200, ends the
\* call at once with the unavailable result, also after pages were counted;
\* no request follows it.
C14_ErrorIsUnavailable ==
    \A k \in DOMAIN c_log :
        c_log[k].status # 200 =>
            /\ k = Len(c_log)
            /\ ContribDone
            /\ c_result = Returned(None)

C14_Witness ==
    /\ ContribDone
    /\ c_log = <<[status |-> 200, size |-> 100], [status |-> 200, size |-> 100],
                 [status |-> 403]>>
    /\ c_total = 200
    /\ c_result = Returned(None)

(***************************************************************************)
(* Properties of format_languages (FmtSpec).                               *)
(***************************************************************************)
RECURSIVE SumPercentages(_)
SumPercentages(entries) ==
    IF Len(entries) = 0 THEN 0
    ELSE Head(entries).percentage + SumPercentages(Tail(entries))

\* C15: for a non-empty mapping (also one whose byte counts are all zero)
\* format_languages returns a breakdown sorted by bytes descending, with
\* total_bytes the sum of the byte counts and percentages that add up to
\* within 0.1 of 100 (10 hundredths of 10000); for an empty mapping it
\* returns None.
C15_LanguageBreakdown ==
    f_pc = "done" =>
        IF Truthy(f_in)
        THEN /\ ~f_out.raised
             /\ f_out.value # None
             /\ LET b == f_out.value.d
                IN /\ b.total_bytes = SumBytes(f_in.d)
                   /\ Len(b.languages) = Len(f_in.d)
                   /\ \A k \in 1..(Len(b.languages) - 1) :
                         b.languages[k].bytes >= b.languages[k + 1].bytes
                   /\ SumPercentages(b.languages) >= 10000 - 10
                   /\ SumPercentages(b.languages) <= 10000 + 10
        ELSE f_out = Returned(None)

(***************************************************************************)
(* Further properties of process_repo (ProcSpec).                          *)
(***************************************************************************)
\* C16: a call of process_repo that gets to the filter has requested the
\* contributor pages (get_repo_contributors) before, and the count it
\* compares is the count of that estimator.
C16_EstimatorBeforeFilter ==
    (ProcDone /\ MetadataFetched) =>
        \E k \in DOMAIN p_calls : p_calls[k] = "contributors"

\* C17: in a returned record a value that was fetched is there as fetched,
\* also a labels count of 0, an empty description, an empty README and an
\* empty language mapping; a placeholder is there only for a failed fetch.
C17_PlaceholderOnlyOnFailure ==
    (ProcDone /\ IsRecord(p_out)) =>
        LET rec == p_out.value.d
        IN /\ p_resp.labels.status = 200 =>
                 rec.labels_count = PyInt(Len(p_resp.labels.labels))
           /\ p_resp.readme.status = 200 =>
                 rec.readme = PyStr(p_resp.readme.text)
           /\ p_resp.meta.description # None =>
                 rec.description = p_resp.meta.description
           /\ p_resp.languages.status = 200 =>
                 rec.languages_info # LanguagesPlaceholder

(***************************************************************************)
(* Further properties of get_repo_contributors (ContribSpec).              *)
(***************************************************************************)
PagesWithinPerPage ==
    \A k \in DOMAIN c_log :
        c_log[k].status = 200 => c_log[k].size <= ContributorsPerPage

\* C18 (as stated): with pages of at most per_page contributors, a provider
\* whose pages bring the total to 550 over ten pages (55 contributors on
\* every page) takes the call to page index 11 with running total 550,
\* where the page cap fires and the estimate is returned.
C18_Page11Total550 ==
    (/\ ContribDone
     /\ PagesWithinPerPage
     /\ \A k \in DOMAIN c_log : IsFullPage(c_log[k]) /\ c_log[k].size = 55)
        => /\ c_page = 11
           /\ c_total = 550
           /\ IsEstimated

\* C18 (amended): with pages of at most per_page contributors the running
\* total never exceeds 500, so the state 'page index 11, total 550' does
\* not occur; page index 11 is reached only with a total of at most 500 and
\* the call then returns the estimate int(total / 10 * 11), estimated true.
C18_Page11TotalAtMost500 ==
    PagesWithinPerPage =>
        /\ c_total <= estimation_threshold + ContributorsPerPage
        /\ c_total > estimation_threshold => IsEstimated
        /\ c_page = max_pages + 1 =>
              /\ IsEstimated
              /\ CountOf = (c_total * (max_pages + 1)) \div max_pages

C18_Witness ==
    /\ PagesWithinPerPage
    /\ c_page = 11
    /\ c_total = 400
    /\ Len(c_log) = 10
    /\ c_result = Returned(ContributorCount(PyInt(440), TRUE))

\* C19: the extrapolation never divides by zero: the page index is one more
\* than the number of non-empty pages counted, so it is at least 2 whenever
\* an estimate is computed, also when the first page exceeds the threshold.
C19_ExtrapolationDefined ==
    /\ c_pc \in {"loop", "done"} => c_page = PagesCounted + 1
    /\ ContribDone => ~c_result.raised
    /\ IsEstimated => c_page >= 2 /\ c_page - 1 = PagesCounted

C19_Witness ==
    /\ ContribDone
    /\ c_log = <<[status |-> 200, size |-> 450]>>
    /\ c_page = 2
    /\ c_result = Returned(ContributorCount(PyInt(900), TRUE))

\* C20: a call issues at most max_pages page requests, whatever the
\* responses are, and has ended when it has issued that many; an exact
\* result has a count of at most 400.
C20_AtMostMaxPagesRequests ==
    /\ Len(c_log) <= max_pages
    /\ Len(c_log) = max_pages => ContribDone
    /\ IsExact => CountOf <= estimation_threshold

C20_Witness ==
    /\ ContribDone
    /\ Len(c_log) = max_pages
    /\ IsExact
    /\ CountOf = 360

(***************************************************************************)
(* Properties of search_repositories_filtered (SearchSpec).                *)
(***************************************************************************)
SearchAnswer(k) ==
    SearchResponse(s_server, k, Min(SearchPerPage, s_max_repos))

PageIsEmptyOrError(k) ==
    IF SearchAnswer(k).status = 200 THEN Len(SearchAnswer(k).items) = 0 ELSE TRUE

\* The items of the pages 1..n that came back with status 200, in page order.
RECURSIVE ConcatenatedPages(_)
ConcatenatedPages(n) ==
    IF n = 0 THEN <<>>
    ELSE ConcatenatedPages(n - 1) \o
         (IF SearchAnswer(n).status = 200 THEN SearchAnswer(n).items ELSE <<>>)

\* C21: the search requests pages 1, 2, 3, ... in increasing order, each
\* while fewer than max_repos items are accumulated; it stops when max_repos
\* items are accumulated, a page is empty or a response is not 200; it ends
\* after at most max_repos requests; it returns None when nothing was
\* accumulated, and otherwise the first min(max_repos, accumulated) items of
\* the concatenation of the pages in order.  The call ends by returning,
\* whatever the provider answers.
C21_SearchPagesInOrderAndTruncates ==
    s_pc = "done" =>
        /\ ~s_result.raised
        /\ LET n == Len(s_requests)
               all == ConcatenatedPages(n)
           IN /\ s_requests = [k \in 1..n |-> k]
              /\ n <= (IF s_max_repos > 0 THEN s_max_repos ELSE 0)
              /\ \A k \in 1..n : Len(ConcatenatedPages(k - 1)) < s_max_repos
              /\ \A k \in 1..(n - 1) : ~PageIsEmptyOrError(k)
              /\ \/ Len(all) >= s_max_repos
                 \/ n > 0 /\ PageIsEmptyOrError(n)
              /\ s_result.value =
                    IF Len(all) = 0 THEN None
                    ELSE PyList(SubSeq(all, 1, Min(s_max_repos, Len(all))))
              /\ s_result.value # None => Len(s_result.value.l) <= s_max_repos

====
